---- MODULE Spec2Model ----
\* A model of the uniquote crate: the escaping engine (src/src/escape/mod.rs),
\* the code point wrapper (src/src/escape/code_point.rs) and the quoting
\* wrapper (src/src/quote.rs).
\*
\* Text is modelled as it is stored: a str is its sequence of UTF-8 bytes, a
\* char is its scalar value, an OsStr on Windows is its sequence of u16 units.
\* The sink is the log of the write calls issued to it, each with the answer
\* the sink gave.
EXTENDS Integers, Sequences, FiniteSets, TLC

\* ---------------------------------------------------------------------------
\* Bounds of the model
\* ---------------------------------------------------------------------------

\* The longest input: bytes of a byte string, chars of a text, units of a
\* wide string.
MaxLen == 3

\* The code points of the range tables looked up are 0 .. MaxPoint.
MaxPoint == 5

\* The most ranges a table looked up holds.
MaxRanges == 3

\* ---------------------------------------------------------------------------
\* Program constants
\* ---------------------------------------------------------------------------

QUOTE == 34

START_ESCAPE == 123

END_ESCAPE == 125

TILDE == 126

LETTER_U == 117

\* ---------------------------------------------------------------------------
\* Generic helpers
\* ---------------------------------------------------------------------------

RECURSIVE Flatten(_)
Flatten(ss) ==
    IF ss = <<>> THEN <<>> ELSE Head(ss) \o Flatten(Tail(ss))

RECURSIVE SeqsUpTo(_, _)
SeqsUpTo(S, n) ==
    IF n = 0 THEN {<<>>}
    ELSE LET shorter == SeqsUpTo(S, n - 1)
         IN  shorter \cup {Append(s, x) : s \in {t \in shorter : Len(t) = n - 1}, x \in S}

\* s[k], or 0 when k is outside s (only a slice that was not validated reads
\* outside).
ByteAt(s, k) == IF k >= 1 /\ k <= Len(s) THEN s[k] ELSE 0

\* ---------------------------------------------------------------------------
\* The standard library's UTF-8 and UTF-16 conversions, as the code uses them
\* ---------------------------------------------------------------------------

IsSurrogate(v) == v >= 55296 /\ v <= 57343

IsScalar(v) == v >= 0 /\ v <= 1114111 /\ ~IsSurrogate(v)

IsCont(b) == b >= 128 /\ b <= 191

\* char::encode_utf8
EncodeUtf8(c) ==
    IF c < 128 THEN <<c>>
    ELSE IF c < 2048 THEN <<192 + (c \div 64), 128 + (c % 64)>>
    ELSE IF c < 65536 THEN
        <<224 + (c \div 4096), 128 + ((c \div 64) % 64), 128 + (c % 64)>>
    ELSE
        <<240 + (c \div 262144), 128 + ((c \div 4096) % 64),
          128 + ((c \div 64) % 64), 128 + (c % 64)>>

\* The width of the UTF-8 sequence a first byte announces.
Utf8Width(b) ==
    IF b < 128 THEN 1 ELSE IF b < 224 THEN 2 ELSE IF b < 240 THEN 3 ELSE 4

\* The char the iterator str::char_indices yields at byte offset i (0-based)
\* of s.
DecodeCharAt(s, i) ==
    LET b0 == ByteAt(s, i + 1)
        b1 == ByteAt(s, i + 2) % 64
        b2 == ByteAt(s, i + 3) % 64
        b3 == ByteAt(s, i + 4) % 64
    IN  IF b0 < 128 THEN b0
        ELSE IF b0 < 224 THEN (b0 % 32) * 64 + b1
        ELSE IF b0 < 240 THEN (b0 % 16) * 4096 + b1 * 64 + b2
        ELSE (b0 % 8) * 262144 + b1 * 4096 + b2 * 64 + b3

\* The outcome of validating the one UTF-8 sequence that starts at offset i
\* (0-based) of b: its width when it is valid, or the length of the invalid
\* sequence (0 for a sequence cut short by the end of b).
Utf8Step(b, i) ==
    LET n == Len(b)
        first == b[i + 1]
        Bad(len) == [ok |-> FALSE, width |-> 0, error_len |-> len]
        Good(w) == [ok |-> TRUE, width |-> w, error_len |-> 0]
        second == b[i + 2]
        SecondOk3 ==
            \/ first = 224 /\ second >= 160 /\ second <= 191
            \/ first >= 225 /\ first <= 236 /\ IsCont(second)
            \/ first = 237 /\ second >= 128 /\ second <= 159
            \/ first >= 238 /\ first <= 239 /\ IsCont(second)
        SecondOk4 ==
            \/ first = 240 /\ second >= 144 /\ second <= 191
            \/ first >= 241 /\ first <= 243 /\ IsCont(second)
            \/ first = 244 /\ second >= 128 /\ second <= 143
    IN  IF first < 128 THEN Good(1)
        ELSE IF first >= 194 /\ first <= 223 THEN
            IF i + 2 > n THEN Bad(0)
            ELSE IF ~IsCont(second) THEN Bad(1)
            ELSE Good(2)
        ELSE IF first >= 224 /\ first <= 239 THEN
            IF i + 2 > n THEN Bad(0)
            ELSE IF ~SecondOk3 THEN Bad(1)
            ELSE IF i + 3 > n THEN Bad(0)
            ELSE IF ~IsCont(b[i + 3]) THEN Bad(2)
            ELSE Good(3)
        ELSE IF first >= 240 /\ first <= 244 THEN
            IF i + 2 > n THEN Bad(0)
            ELSE IF ~SecondOk4 THEN Bad(1)
            ELSE IF i + 3 > n THEN Bad(0)
            ELSE IF ~IsCont(b[i + 3]) THEN Bad(2)
            ELSE IF i + 4 > n THEN Bad(0)
            ELSE IF ~IsCont(b[i + 4]) THEN Bad(3)
            ELSE Good(4)
        ELSE Bad(1)

\* core::str::from_utf8 on b, scanning from offset i: Ok, or the Utf8Error
\* with its valid_up_to and its error_len (0 stands for None).
RECURSIVE Utf8Scan(_, _)
Utf8Scan(b, i) ==
    IF i >= Len(b) THEN [ok |-> TRUE, valid_up_to |-> Len(b), error_len |-> 0]
    ELSE LET st == Utf8Step(b, i)
         IN  IF st.ok THEN Utf8Scan(b, i + st.width)
             ELSE [ok |-> FALSE, valid_up_to |-> i, error_len |-> st.error_len]

from_utf8(b) == Utf8Scan(b, 0)

\* char::decode_utf16 on the units of u from position i (1-based): the
\* sequence of items it yields, each a decoded char or the error that holds
\* an unpaired surrogate.
RECURSIVE decode_utf16(_, _)
decode_utf16(u, i) ==
    IF i > Len(u) THEN <<>>
    ELSE LET x == u[i]
         IN  IF ~IsSurrogate(x) THEN
                 <<[ok |-> TRUE, value |-> x]>> \o decode_utf16(u, i + 1)
             ELSE IF x >= 56320 THEN
                 <<[ok |-> FALSE, value |-> x]>> \o decode_utf16(u, i + 1)
             ELSE IF i + 1 > Len(u) THEN
                 <<[ok |-> FALSE, value |-> x]>>
             ELSE IF u[i + 1] < 56320 \/ u[i + 1] > 57343 THEN
                 <<[ok |-> FALSE, value |-> x]>> \o decode_utf16(u, i + 1)
             ELSE
                 <<[ok |-> TRUE,
                    value |-> 65536 + (x - 55296) * 1024 + (u[i + 1] - 56320)]>>
                 \o decode_utf16(u, i + 2)

\* The digit characters of n in lowercase hexadecimal ({:x}).
HexDigit(d) == IF d < 10 THEN 48 + d ELSE 87 + d

RECURSIVE LowerHex(_)
LowerHex(n) ==
    IF n < 16 THEN <<HexDigit(n)>>
    ELSE Append(LowerHex(n \div 16), HexDigit(n % 16))

\* ---------------------------------------------------------------------------
\* Printability (escape/mod.rs, escape/tables.rs)
\* ---------------------------------------------------------------------------

\* The table of unprintable ranges, (low, high) inclusive, sorted by low.
UNPRINTABLE ==
    << <<128, 160>>, <<173, 173>>, <<8203, 8207>>, <<57344, 63743>>,
       <<65534, 65535>>, <<983040, 1114111>> >>

\* slice::binary_search_by_key on the lows of table, over the positions
\* lo..hi-1 (0-based): Ok(index) or Err(insertion index).
RECURSIVE BinarySearchByKey(_, _, _, _)
BinarySearchByKey(table, key, lo, hi) ==
    IF lo >= hi THEN [found |-> FALSE, index |-> lo]
    ELSE LET mid == lo + ((hi - lo) \div 2)
             x == table[mid + 1][1]
         IN  IF x = key THEN [found |-> TRUE, index |-> mid]
             ELSE IF x < key THEN BinarySearchByKey(table, key, mid + 1, hi)
             ELSE BinarySearchByKey(table, key, lo, mid)

\* table_contains that leaves the high bound of a range out.
table_contains_below_high(table, code_point) ==
    LET r == BinarySearchByKey(table, code_point, 0, Len(table))
    IN  IF r.found THEN TRUE
        ELSE r.index >= 1 /\ code_point < table[r.index][2]

table_contains(table, code_point) ==
    LET r == BinarySearchByKey(table, code_point, 0, Len(table))
    IN  IF r.found THEN TRUE
        ELSE r.index >= 1 /\ code_point <= table[r.index][2]

\* is_printable with the range ' '..='~' taken one too far.
is_printable_through_del(ch) ==
    IF ch >= 32 /\ ch <= 127 THEN TRUE
    ELSE IF ch < 128 THEN FALSE
    ELSE ~table_contains(UNPRINTABLE, ch)

is_printable(ch) ==
    IF ch >= 32 /\ ch <= 126 THEN TRUE
    ELSE IF ch < 128 THEN FALSE
    ELSE ~table_contains(UNPRINTABLE, ch)

\* ---------------------------------------------------------------------------
\* EscapedCodePoint
\* ---------------------------------------------------------------------------

Hex(code_point) == [tag |-> "Hex", ch |-> code_point, sequence |-> <<>>]

Literal(ch) == [tag |-> "Literal", ch |-> ch, sequence |-> <<>>]

Quote == [tag |-> "Quote", ch |-> QUOTE, sequence |-> <<>>]

Repeated(ch) == [tag |-> "Repeated", ch |-> ch, sequence |-> <<>>]

Sequence(sequence) == [tag |-> "Sequence", ch |-> 0, sequence |-> sequence]

\* From<char> without the arm for the quote.
FromCharNoQuoteArm(value) ==
    IF value = 9 THEN Sequence(<<116>>)
    ELSE IF value = 10 THEN Sequence(<<110>>)
    ELSE IF value = 13 THEN Sequence(<<114>>)
    ELSE IF value = END_ESCAPE \/ value = START_ESCAPE THEN Repeated(value)
    ELSE IF is_printable(value) THEN Literal(value)
    ELSE Hex(value)

\* impl From<char> for EscapedCodePoint
FromChar(value) ==
    IF value = 9 THEN Sequence(<<116>>)
    ELSE IF value = 10 THEN Sequence(<<110>>)
    ELSE IF value = 13 THEN Sequence(<<114>>)
    ELSE IF value = QUOTE THEN Quote
    ELSE IF value = END_ESCAPE \/ value = START_ESCAPE THEN Repeated(value)
    ELSE IF is_printable(value) THEN Literal(value)
    ELSE Hex(value)

\* impl From<u8> for EscapedCodePoint: the byte becomes the char of the same
\* value.
FromU8(value) == FromChar(value)

\* From<CodePoint> that takes every value for a char.
FromCodePointUnchecked(value) == FromChar(value)

\* impl From<CodePoint> for EscapedCodePoint
FromCodePoint(value) ==
    IF IsScalar(value) THEN FromChar(value) ELSE Hex(value)

\* ---------------------------------------------------------------------------
\* The sink
\* ---------------------------------------------------------------------------

\* A sink is the log of the writes it was sent and the number of the write it
\* will refuse (0: none). A write is [op, data, ok].
NewSink(log, failAt) == [log |-> log, failAt |-> failAt]

Done(sink, res) == [sink |-> sink, res |-> res]

SinkWrite(sink, op, data) ==
    LET ok == Len(sink.log) + 1 # sink.failAt
    IN  Done([sink EXCEPT !.log = Append(@, [op |-> op, data |-> data, ok |-> ok])],
             IF ok THEN "ok" ELSE "err")

write_char(sink, ch) == SinkWrite(sink, "char", EncodeUtf8(ch))

write_str(sink, s) == SinkWrite(sink, "str", s)

\* write!(formatter, "u{:x}", code_point): the literal piece, then the
\* formatted argument.
write_hex(sink, code_point) ==
    LET r == write_str(sink, <<LETTER_U>>)
    IN  IF r.res # "ok" THEN r ELSE write_str(r.sink, LowerHex(code_point))

\* The bytes the sink accepted.
RECURSIVE Accepted(_)
Accepted(log) ==
    IF log = <<>> THEN <<>>
    ELSE (IF Head(log).ok THEN Head(log).data ELSE <<>>) \o Accepted(Tail(log))

\* ---------------------------------------------------------------------------
\* EscapedCodePoint::format
\* ---------------------------------------------------------------------------

\* The loop of the Repeated arm running one time too few.
RECURSIVE WriteRepeatedOnce(_, _, _)
WriteRepeatedOnce(sink, ch, n) ==
    IF n <= 1 THEN Done(sink, "ok")
    ELSE LET r == write_char(sink, ch)
         IN  IF r.res # "ok" THEN r ELSE WriteRepeatedOnce(r.sink, ch, n - 1)

RECURSIVE WriteRepeated(_, _, _)
WriteRepeated(sink, ch, n) ==
    IF n = 0 THEN Done(sink, "ok")
    ELSE LET r == write_char(sink, ch)
         IN  IF r.res # "ok" THEN r ELSE WriteRepeated(r.sink, ch, n - 1)

\* The inside of the brackets without the test for Quote: a Quote reaches
\* the inner match.
FormatEscapeNoQuoteTest(self, sink) ==
    LET r == write_char(sink, TILDE)
    IN  IF r.res # "ok" THEN r
        ELSE CASE self.tag = "Hex" -> write_hex(r.sink, self.ch)
               [] self.tag = "Sequence" -> write_str(r.sink, self.sequence)
               [] OTHER -> Done(r.sink, "panic")

FormatEscape(self, sink) ==
    IF self.tag = "Quote" THEN write_char(sink, QUOTE)
    ELSE LET r == write_char(sink, TILDE)
         IN  IF r.res # "ok" THEN r
             ELSE CASE self.tag = "Hex" -> write_hex(r.sink, self.ch)
                    [] self.tag = "Sequence" -> write_str(r.sink, self.sequence)
                    [] OTHER -> Done(r.sink, "panic")

format(self, sink) ==
    IF self.tag = "Literal" THEN write_char(sink, self.ch)
    ELSE IF self.tag = "Repeated" THEN WriteRepeated(sink, self.ch, 2)
    ELSE LET r1 == write_char(sink, START_ESCAPE)
         IN  IF r1.res # "ok" THEN r1
             ELSE LET r2 == FormatEscape(self, r1.sink)
                  IN  IF r2.res # "ok" THEN r2
                      ELSE write_char(r2.sink, END_ESCAPE)

\* ---------------------------------------------------------------------------
\* impl Escape for str
\* ---------------------------------------------------------------------------

\* &s[from..to], offsets 0-based: a panic when the range is out of order or
\* past the end.
SliceOk(s, from, to) == from <= to /\ to <= Len(s)

Slice(s, from, to) == SubSeq(s, from + 1, to)

\* str::is_char_boundary: slicing a str elsewhere panics.
is_char_boundary(s, index) ==
    \/ index = 0
    \/ index = Len(s)
    \/ index < Len(s) /\ ~IsCont(s[index + 1])

\* push_literal! without the test for an empty span.
push_literal_unguarded(self, escaped_index, index, sink) ==
    IF /\ SliceOk(self, escaped_index, index)
       /\ is_char_boundary(self, escaped_index)
       /\ is_char_boundary(self, index)
    THEN write_str(sink, Slice(self, escaped_index, index))
    ELSE Done(sink, "panic")

\* push_literal! that writes from the start of the text, not from
\* escaped_index.
push_literal_from_start(self, escaped_index, index, sink) ==
    IF index # escaped_index THEN
        IF SliceOk(self, 0, index) /\ is_char_boundary(self, index)
        THEN write_str(sink, Slice(self, 0, index))
        ELSE Done(sink, "panic")
    ELSE Done(sink, "ok")

\* push_literal!(index)
push_literal(self, escaped_index, index, sink) ==
    IF index # escaped_index THEN
        IF /\ SliceOk(self, escaped_index, index)
           /\ is_char_boundary(self, escaped_index)
           /\ is_char_boundary(self, index)
        THEN write_str(sink, Slice(self, escaped_index, index))
        ELSE Done(sink, "panic")
    ELSE Done(sink, "ok")

\* The loop over self.char_indices() from byte offset i, and the code after
\* the loop.
RECURSIVE StrLoop(_, _, _, _, _)
StrLoop(self, i, escaped_index0, escaped, sink) ==
    IF i >= Len(self) THEN
        IF ~escaped THEN push_literal(self, escaped_index0, Len(self), sink)
        ELSE Done(sink, "ok")
    ELSE LET ch == DecodeCharAt(self, i)
             next == i + Utf8Width(self[i + 1])
             escaped_index == IF escaped THEN i ELSE escaped_index0
             code_point == FromChar(ch)
         IN  IF code_point.tag = "Literal" THEN
                 StrLoop(self, next, escaped_index, FALSE, sink)
             ELSE LET r1 == push_literal(self, escaped_index, i, sink)
                  IN  IF r1.res # "ok" THEN r1
                      ELSE LET r2 == format(code_point, r1.sink)
                           IN  IF r2.res # "ok" THEN r2
                               ELSE StrLoop(self, next, escaped_index, TRUE, r2.sink)

StrEscape(self, sink) == StrLoop(self, 0, 0, FALSE, sink)

\* impl Escape for char
CharEscape(self, sink) == StrEscape(EncodeUtf8(self), sink)

\* ---------------------------------------------------------------------------
\* impl Escape for OsStr (windows)
\* ---------------------------------------------------------------------------

RECURSIVE Utf16Loop(_, _)
Utf16Loop(items, sink) ==
    IF items = <<>> THEN Done(sink, "ok")
    ELSE LET item == Head(items)
             escaped == IF item.ok THEN FromChar(item.value)
                        ELSE FromCodePoint(item.value)
             r == format(escaped, sink)
         IN  IF r.res # "ok" THEN r ELSE Utf16Loop(Tail(items), r.sink)

OsStrEscape(self, sink) == Utf16Loop(decode_utf16(self, 1), sink)

\* ---------------------------------------------------------------------------
\* impl Escape for [u8]
\* ---------------------------------------------------------------------------

\* The data of the writes log holds after its first n.
RECURSIVE DataFrom(_, _)
DataFrom(log, n) ==
    IF n >= Len(log) THEN <<>>
    ELSE log[n + 1].data \o DataFrom(log, n + 1)

\* The invalid length with 0 for an error that has no length.
InvalidLengthOrZero(error, string) ==
    IF error.error_len # 0 THEN error.error_len ELSE 0

\* error.error_len().unwrap_or_else(|| string.len()), string being the part
\* after the valid prefix.
InvalidLength(error, string) ==
    IF error.error_len # 0 THEN error.error_len ELSE Len(string)

\* for &byte in invalid { EscapedCodePoint::from(byte).format(formatter)?; }
\* rendered records, for each byte, what was sent to the sink for it.
RECURSIVE InvalidLoop(_, _, _)
InvalidLoop(invalid, sink, rendered) ==
    IF invalid = <<>> THEN [sink |-> sink, res |-> "ok", rendered |-> rendered]
    ELSE LET byte == Head(invalid)
             r == format(FromU8(byte), sink)
             done == Append(rendered,
                            [byte |-> byte,
                             data |-> DataFrom(r.sink.log, Len(sink.log))])
         IN  IF r.res # "ok"
             THEN [sink |-> r.sink, res |-> r.res, rendered |-> done]
             ELSE InvalidLoop(Tail(invalid), r.sink, done)

\* What one iteration of the while loop leaves: the sink and the result, the
\* new value of string, and the valid and invalid parts it handled.
IterResult(sink, res, string, valid, rendered) ==
    [sink |-> sink, res |-> res, string |-> string,
     valid |-> valid, rendered |-> rendered]

None == [some |-> FALSE, bytes |-> <<>>]

Some(bytes) == [some |-> TRUE, bytes |-> bytes]

\* if let Some(invalid) = invalid { ... }, r2 being the outcome of the for
\* loop and string1 the value of string before it.
EscapeInvalid(string, string1, valid, invalid, r2) ==
    IF r2.res # "ok" THEN
        IterResult(r2.sink, r2.res, string, valid, r2.rendered)
    ELSE IF ~SliceOk(string1, Len(invalid), Len(string1)) THEN
        IterResult(r2.sink, "panic", string, valid, r2.rendered)
    ELSE
        IterResult(r2.sink, "ok", Slice(string1, Len(invalid), Len(string1)),
                   valid, r2.rendered)

\* valid.escape(formatter)?; string = &string[valid.len()..]; and the rest of
\* the iteration, r1 being the outcome of valid.escape.
EscapeParts(string, valid, invalid, r1) ==
    IF r1.res # "ok" THEN IterResult(r1.sink, r1.res, string, <<>>, <<>>)
    ELSE IF ~SliceOk(string, Len(valid), Len(string)) THEN
        IterResult(r1.sink, "panic", string, <<>>, <<>>)
    ELSE IF ~invalid.some THEN
        IterResult(r1.sink, "ok", Slice(string, Len(valid), Len(string)),
                   valid, <<>>)
    ELSE
        EscapeInvalid(string, Slice(string, Len(valid), Len(string)), valid,
                      invalid.bytes, InvalidLoop(invalid.bytes, r1.sink, <<>>))

\* invalid = Some(&string[..invalid_length]), string being here the part
\* after the valid prefix (rest).
TakeInvalid(string, valid, rest, invalid_length, sink) ==
    IF ~SliceOk(rest, 0, invalid_length) THEN
        IterResult(sink, "panic", string, <<>>, <<>>)
    ELSE
        EscapeParts(string, valid, Some(Slice(rest, 0, invalid_length)),
                    StrEscape(valid, sink))

\* The match on str::from_utf8(string), u being what it returned.
MatchFromUtf8(string, u, sink) ==
    IF u.ok THEN EscapeParts(string, string, None, StrEscape(string, sink))
    ELSE IF ~SliceOk(string, 0, u.valid_up_to) THEN
        IterResult(sink, "panic", string, <<>>, <<>>)
    ELSE
        TakeInvalid(string, Slice(string, 0, u.valid_up_to),
                    Slice(string, u.valid_up_to, Len(string)),
                    InvalidLength(u, Slice(string, u.valid_up_to, Len(string))),
                    sink)

\* One iteration of the while loop on a non-empty string.
BytesIteration(string, sink) == MatchFromUtf8(string, from_utf8(string), sink)

\* ---------------------------------------------------------------------------
\* The inputs
\* ---------------------------------------------------------------------------

\* A, {, and bytes that make invalid, incomplete and valid multi-byte
\* sequences (0x80, 0xA9, 0xC2, 0xC3, 0xE2, 0xE9).
ByteAlphabet == {65, 123, 128, 169, 194, 195, 226, 233}

\* u, ~, ", {, }, newline, e-acute, U+200B, U+10FFFF.
CharAlphabet == {117, 126, 34, 123, 125, 10, 233, 8203, 1114111}

\* o, {, newline, and high and low surrogates.
UnitAlphabet == {111, 123, 10, 55296, 56319, 56320, 57343}

\* Every ASCII char, and chars on both sides of the table's ranges.
CharInputs ==
    (0 .. 127) \cup {128, 160, 161, 173, 233, 255, 256, 8203, 65533, 65535,
                      65536, 1114111}

Utf8Of(chars) == Flatten([k \in 1 .. Len(chars) |-> EncodeUtf8(chars[k])])

ByteInputs == SeqsUpTo(ByteAlphabet, MaxLen)

StrInputs == {Utf8Of(cs) : cs \in SeqsUpTo(CharAlphabet, MaxLen)}

UnitInputs == SeqsUpTo(UnitAlphabet, MaxLen)

Kinds == {"bytes", "str", "char", "os_str"}

InputsOf(k) ==
    CASE k = "bytes" -> ByteInputs
      [] k = "str" -> StrInputs
      [] k = "char" -> {<<c>> : c \in CharInputs}
      [] k = "os_str" -> UnitInputs

\* ---------------------------------------------------------------------------
\* The state machine: one call of Display::fmt on input.quote()
\* ---------------------------------------------------------------------------

VARIABLES
    kind,       \* the type of the quoted value
    input,      \* the quoted value
    pc,         \* "open", "escape", "close", "done"
    log,        \* the writes sent to the sink, in order
    result,     \* "none", then what fmt returned: "ok", "err", or "panic"
    string,     \* the byte driver's cursor: the bytes not yet handled
    iterations, \* the iterations the byte driver's loop has run
    consumed,   \* the bytes the byte driver handled, in the order handled
    rendered,   \* for each invalid byte handled, what was sent for it
    lookup_table,   \* the table of a call of table_contains
    lookup_point,   \* the code point of the call
    lookup_answer   \* "none", then what the call returned

vars == <<kind, input, pc, log, result, string, iterations, consumed, rendered,
          lookup_table, lookup_point, lookup_answer>>

\* The call of table_contains.
lookup == <<lookup_table, lookup_point, lookup_answer>>

Init ==
    /\ kind \in Kinds
    /\ input \in InputsOf(kind)
    /\ pc = "open"
    /\ log = <<>>
    /\ result = "none"
    /\ string = IF kind = "bytes" THEN input ELSE <<>>
    /\ iterations = 0
    /\ consumed = <<>>
    /\ rendered = <<>>
    /\ lookup_table = UNPRINTABLE
    /\ lookup_point = 0
    /\ lookup_answer = "none"

\* The sink that refuses nothing.
SinkAccepting == NewSink(log, 0)

\* The writes a call issued, r being what it left.
NumWrites(r) == Len(r.sink.log) - Len(log)

\* The sink as the call sees it when the sink refuses the call's f-th write
\* (f = 0: none).
SinkFailing(f) == NewSink(log, IF f = 0 THEN 0 ELSE Len(log) + f)

\* The escape call inside fmt with its result dropped.
PropagateNothing(r) ==
    /\ log' = r.sink.log
    /\ pc' = "close"
    /\ result' = result

\* The end of the escape call inside fmt: `?` returns its error from fmt.
Propagate(r) ==
    /\ log' = r.sink.log
    /\ pc' = IF r.res = "ok" THEN "close" ELSE "done"
    /\ result' = IF r.res = "ok" THEN result ELSE r.res

\* f.write_char(QUOTE)?
FmtOpen ==
    /\ pc = "open"
    /\ \E f \in 0 .. 1 :
        LET r == write_char(SinkFailing(f), QUOTE)
        IN  /\ log' = r.sink.log
            /\ pc' = IF r.res = "ok" THEN "escape" ELSE "done"
            /\ result' = IF r.res = "ok" THEN result ELSE r.res
    /\ UNCHANGED <<kind, input, string, iterations, consumed, rendered, lookup>>

EscapeStr ==
    /\ pc = "escape"
    /\ kind = "str"
    /\ \E f \in 0 .. NumWrites(StrEscape(input, SinkAccepting)) :
        Propagate(StrEscape(input, SinkFailing(f)))
    /\ UNCHANGED <<kind, input, string, iterations, consumed, rendered, lookup>>

EscapeChar ==
    /\ pc = "escape"
    /\ kind = "char"
    /\ \E f \in 0 .. NumWrites(CharEscape(input[1], SinkAccepting)) :
        Propagate(CharEscape(input[1], SinkFailing(f)))
    /\ UNCHANGED <<kind, input, string, iterations, consumed, rendered, lookup>>

EscapeOsStr ==
    /\ pc = "escape"
    /\ kind = "os_str"
    /\ \E f \in 0 .. NumWrites(OsStrEscape(input, SinkAccepting)) :
        Propagate(OsStrEscape(input, SinkFailing(f)))
    /\ UNCHANGED <<kind, input, string, iterations, consumed, rendered, lookup>>

\* One iteration of the byte driver's loop.
BytesIter ==
    /\ pc = "escape"
    /\ kind = "bytes"
    /\ string # <<>>
    /\ \E f \in 0 .. NumWrites(BytesIteration(string, SinkAccepting)) :
        LET r == BytesIteration(string, SinkFailing(f))
        IN  /\ log' = r.sink.log
            /\ pc' = IF r.res = "ok" THEN "escape" ELSE "done"
            /\ result' = IF r.res = "ok" THEN result ELSE r.res
            /\ string' = r.string
            /\ iterations' = iterations + 1
            /\ consumed' = consumed \o r.valid
                           \o [k \in 1 .. Len(r.rendered) |-> r.rendered[k].byte]
            /\ rendered' = rendered \o r.rendered
    /\ UNCHANGED <<kind, input, lookup>>

\* The loop's exit: Ok(()).
BytesReturn ==
    /\ pc = "escape"
    /\ kind = "bytes"
    /\ string = <<>>
    /\ pc' = "close"
    /\ UNCHANGED <<kind, input, log, result, string, iterations, consumed,
                   rendered, lookup>>

\* f.write_char(QUOTE)
FmtClose ==
    /\ pc = "close"
    /\ \E f \in 0 .. 1 :
        LET r == write_char(SinkFailing(f), QUOTE)
        IN  /\ log' = r.sink.log
            /\ result' = r.res
    /\ pc' = "done"
    /\ UNCHANGED <<kind, input, string, iterations, consumed, rendered, lookup>>

Next ==
    \/ FmtOpen
    \/ EscapeStr
    \/ EscapeChar
    \/ EscapeOsStr
    \/ BytesIter
    \/ BytesReturn
    \/ FmtClose

Spec == Init /\ [][Next]_vars

\* ---------------------------------------------------------------------------
\* The state machine of one call of table_contains
\* ---------------------------------------------------------------------------

\* The inclusive ranges of the code points of the model.
Ranges == {r \in (0 .. MaxPoint) \X (0 .. MaxPoint) : r[1] <= r[2]}

\* The range r may follow the ranges of t: its low is above the last high
\* (it may start right after it: adjacent ranges need not be merged).
Follows(t, r) == t = <<>> \/ t[Len(t)][2] < r[1]

\* The tables of exactly n ranges, sorted by low and pairwise disjoint.
RECURSIVE TablesOf(_)
TablesOf(n) ==
    IF n = 0 THEN {<<>>}
    ELSE {Append(x[1], x[2]) :
            x \in {y \in TablesOf(n - 1) \X Ranges : Follows(y[1], y[2])}}

Tables == UNION {TablesOf(n) : n \in 0 .. MaxRanges}

TableInit ==
    /\ kind = "char"
    /\ input = <<0>>
    /\ pc = "lookup"
    /\ log = <<>>
    /\ result = "none"
    /\ string = <<>>
    /\ iterations = 0
    /\ consumed = <<>>
    /\ rendered = <<>>
    /\ lookup_table \in Tables
    /\ lookup_point \in 0 .. MaxPoint
    /\ lookup_answer = "none"

\* table_contains(table, code_point)
Lookup ==
    /\ pc = "lookup"
    /\ lookup_answer' = table_contains(lookup_table, lookup_point)
    /\ pc' = "looked"
    /\ UNCHANGED <<kind, input, log, result, string, iterations, consumed,
                   rendered, lookup_table, lookup_point>>

TableNext == Lookup

TableSpec == TableInit /\ [][TableNext]_vars

TypeOK ==
    /\ kind \in Kinds
    /\ pc \in {"open", "escape", "close", "done"}
    /\ result \in {"none", "ok", "err", "panic"}

\* ---------------------------------------------------------------------------
\* Vocabulary of the properties
\* ---------------------------------------------------------------------------

\* What the sink holds.
Output == Accepted(log)

\* The output without its first and last character.
Body == SubSeq(Output, 2, Len(Output) - 1)

\* The call returned Ok.
Returned == pc = "done" /\ result = "ok"

SinkFailed == \E k \in 1 .. Len(log) : ~log[k].ok

\* The sixteen hexadecimal digit characters, lowercase.
HexChars == <<48, 49, 50, 51, 52, 53, 54, 55, 56, 57, 97, 98, 99, 100, 101, 102>>

\* {~u<hex>} of a value below 0x100, and of a value of four hex digits.
HexEscape2(v) ==
    <<123, 126, 117>>
    \o (IF v < 16 THEN <<HexChars[v + 1]>>
        ELSE <<HexChars[(v \div 16) + 1], HexChars[(v % 16) + 1]>>)
    \o <<125>>

HexEscape4(v) ==
    <<123, 126, 117, HexChars[(v \div 4096) + 1], HexChars[((v \div 256) % 16) + 1],
      HexChars[((v \div 16) % 16) + 1], HexChars[(v % 16) + 1], 125>>

\* The chars of a valid text, from its UTF-8 bytes.
RECURSIVE Chars(_, _)
Chars(s, i) ==
    IF i >= Len(s) THEN <<>>
    ELSE <<DecodeCharAt(s, i)>> \o Chars(s, i + Utf8Width(s[i + 1]))

\* One char rendered on its own by the char driver, into a sink that accepts
\* everything.
CharRendering(c) == Accepted(CharEscape(c, NewSink(<<>>, 0)).sink.log)

\* The whole byte driver on b into a sink that accepts everything: the
\* iterations of its loop, one after the other.
RECURSIVE BytesRun(_, _)
BytesRun(bytes, sink) ==
    IF bytes = <<>> THEN sink
    ELSE LET r == BytesIteration(bytes, sink)
         IN  IF r.res # "ok" \/ Len(r.string) >= Len(bytes) THEN r.sink
             ELSE BytesRun(r.string, r.sink)

\* The quoted form of every byte string of the model.
BytesQuoted ==
    [b \in ByteInputs |->
        <<QUOTE>> \o Accepted(BytesRun(b, NewSink(<<>>, 0)).log) \o <<QUOTE>>]

\* ---------------------------------------------------------------------------
\* C1
\* ---------------------------------------------------------------------------

\* C1: quoting a byte sequence is lossless: no other byte sequence has the
\* same quoted form as the one that was quoted.
C1_Lossless ==
    (Returned /\ kind = "bytes") =>
        \A b \in ByteInputs : b # input => BytesQuoted[b] # Output

\* ---------------------------------------------------------------------------
\* C2
\* ---------------------------------------------------------------------------

\* C2: every byte of an invalid UTF-8 span is rendered as the hex escape
\* {~u<hex>} of its value, never as a literal character.
C2_InvalidBytesHex ==
    \A k \in 1 .. Len(rendered) :
        (k < Len(rendered) \/ ~SinkFailed) =>
            rendered[k].data = HexEscape2(rendered[k].byte)

\* ---------------------------------------------------------------------------
\* C3
\* ---------------------------------------------------------------------------

\* The rendering the format fixes for an ASCII code point.
AsciiRendering(c) ==
    CASE c = 9 -> <<123, 126, 116, 125>>
      [] c = 10 -> <<123, 126, 110, 125>>
      [] c = 13 -> <<123, 126, 114, 125>>
      [] c = 34 -> <<123, 34, 125>>
      [] c = 123 -> <<123, 123>>
      [] c = 125 -> <<125, 125>>
      [] c \in (32 .. 126) \ {34, 123, 125} -> <<c>>
      [] OTHER -> HexEscape2(c)

\* C3: a value that is one ASCII code point c, of any type, is quoted as the
\* fixed rendering of c: {~t} {~n} {~r} for tab, newline, carriage return,
\* {"} for the quote, {{ and }} for the brackets, c itself from space to
\* tilde, {~u<hex>} for the other control characters.
C3_AsciiRendering ==
    (Returned /\ Len(input) = 1 /\ input[1] < 128) =>
        Output = <<QUOTE>> \o AsciiRendering(input[1]) \o <<QUOTE>>

\* The char 0x7F was quoted as "{~u7f}".
C3_Witness ==
    /\ Returned
    /\ kind = "char"
    /\ input = <<127>>
    /\ Output = <<34, 123, 126, 117, 55, 102, 125, 34>>

\* ---------------------------------------------------------------------------
\* C4
\* ---------------------------------------------------------------------------

\* C4: quoting is total: no call panics, and a call returns an error if and
\* only if a write to the sink returned one.
C4_Total ==
    /\ result # "panic"
    /\ pc = "done" => (result = "err" <=> SinkFailed)
    /\ (pc = "done" /\ ~SinkFailed) => result = "ok"

\* A byte string with an invalid span of two bytes was quoted and returned Ok.
C4_Witness ==
    /\ Returned
    /\ kind = "bytes"
    /\ input = <<226, 128, 65>>
    /\ Len(rendered) = 2

\* ---------------------------------------------------------------------------
\* C5
\* ---------------------------------------------------------------------------

\* C5: a write the sink refuses is the last write of the call, and the call
\* has returned the error.
C5_StopsAtFailure ==
    \A k \in 1 .. Len(log) :
        ~log[k].ok => (k = Len(log) /\ pc = "done" /\ result = "err")

\* The sink refused a write in the middle of an escape sequence of a text.
C5_Witness ==
    /\ kind = "str"
    /\ pc = "done"
    /\ result = "err"
    /\ Len(log) >= 3
    /\ ~log[Len(log)].ok
    /\ log[Len(log)].data = <<TILDE>>

\* ---------------------------------------------------------------------------
\* C6
\* ---------------------------------------------------------------------------

Parsed(text, rest) ==
    [ok |-> rest.ok, text |-> IF rest.ok THEN text \o rest.text ELSE <<>>]

ParseFail == [ok |-> FALSE, text |-> <<>>]

IsHexChar(x) == (x >= 48 /\ x <= 57) \/ (x >= 97 /\ x <= 102)

HexCharValue(x) == IF x <= 57 THEN x - 48 ELSE x - 87

RECURSIVE HexValue(_)
HexValue(digits) ==
    IF digits = <<>> THEN 0
    ELSE HexValue(SubSeq(digits, 1, Len(digits) - 1)) * 16
         + HexCharValue(digits[Len(digits)])

\* The position of the first } of b at or after i (Len(b) + 1: none).
RECURSIVE FindEnd(_, _)
FindEnd(b, i) ==
    IF i > Len(b) \/ b[i] = 125 THEN i ELSE FindEnd(b, i + 1)

\* A reader of the escaped body: it scans b from position i, left to right,
\* without backtracking, and gives the text the body stands for.
RECURSIVE Unescape(_, _)
UnescapeHex(b, i, end) ==
    IF /\ end <= Len(b)
       /\ end > i
       /\ \A k \in i .. end - 1 : IsHexChar(b[k])
    THEN Parsed(EncodeUtf8(HexValue(SubSeq(b, i, end - 1))), Unescape(b, end + 1))
    ELSE ParseFail

UnescapeTilde(b, i) ==
    IF ByteAt(b, i) = 116 /\ ByteAt(b, i + 1) = 125 THEN Parsed(<<9>>, Unescape(b, i + 2))
    ELSE IF ByteAt(b, i) = 110 /\ ByteAt(b, i + 1) = 125 THEN Parsed(<<10>>, Unescape(b, i + 2))
    ELSE IF ByteAt(b, i) = 114 /\ ByteAt(b, i + 1) = 125 THEN Parsed(<<13>>, Unescape(b, i + 2))
    ELSE IF ByteAt(b, i) = 117 THEN UnescapeHex(b, i + 1, FindEnd(b, i + 1))
    ELSE ParseFail

UnescapeBracket(b, i) ==
    IF ByteAt(b, i) = 123 THEN Parsed(<<123>>, Unescape(b, i + 1))
    ELSE IF ByteAt(b, i) = 34 /\ ByteAt(b, i + 1) = 125 THEN
        Parsed(<<34>>, Unescape(b, i + 2))
    ELSE IF ByteAt(b, i) = 126 THEN UnescapeTilde(b, i + 1)
    ELSE ParseFail

Unescape(b, i) ==
    IF i > Len(b) THEN [ok |-> TRUE, text |-> <<>>]
    ELSE IF b[i] = 123 THEN UnescapeBracket(b, i + 1)
    ELSE IF b[i] = 125 THEN
        IF ByteAt(b, i + 1) = 125 THEN Parsed(<<125>>, Unescape(b, i + 2))
        ELSE ParseFail
    ELSE IF b[i] = 34 THEN ParseFail
    ELSE Parsed(<<b[i]>>, Unescape(b, i + 1))

\* C6: the escaped body of a valid text is read back, token by token and
\* without ambiguity, as the text itself; so no two texts share a body.
C6_Tokenizable ==
    (Returned /\ kind = "str") =>
        Unescape(Body, 1) = [ok |-> TRUE, text |-> input]

\* The text {"} was quoted: its body is {{{"}}}.
C6_Witness ==
    /\ Returned
    /\ kind = "str"
    /\ input = <<123, 34, 125>>
    /\ Body = <<123, 123, 123, 34, 125, 125, 125>>

\* ---------------------------------------------------------------------------
\* C7
\* ---------------------------------------------------------------------------

\* C7: what the text driver sends to the sink is the renderings of the
\* chars of the text, each rendered on its own, in the order of the text.
C7_BatchingTransparent ==
    (Returned /\ kind = "str") =>
        LET chars == Chars(input, 0)
        IN  Body = Flatten([k \in 1 .. Len(chars) |-> CharRendering(chars[k])])

\* A text with a literal run after an escape and before another was quoted.
C7_Witness ==
    /\ Returned
    /\ kind = "str"
    /\ input = <<10, 117, 34>>
    /\ Body = <<123, 126, 110, 125, 117, 123, 34, 125>>

\* ---------------------------------------------------------------------------
\* C8
\* ---------------------------------------------------------------------------

IsHigh(x) == x >= 55296 /\ x <= 56319

IsLow(x) == x >= 56320 /\ x <= 57343

\* The unit at position i of u is the first, or the second, unit of a pair.
PairedHigh(u, i) == IsHigh(u[i]) /\ i < Len(u) /\ IsLow(u[i + 1])

PairedLow(u, i) == IsLow(u[i]) /\ i > 1 /\ IsHigh(u[i - 1])

\* What the unit at position i of u contributes to the body.
UnitRendering(u, i) ==
    IF PairedLow(u, i) THEN <<>>
    ELSE IF PairedHigh(u, i) THEN
        CharRendering(65536 + (u[i] - 55296) * 1024 + (u[i + 1] - 56320))
    ELSE IF IsSurrogate(u[i]) THEN HexEscape4(u[i])
    ELSE CharRendering(u[i])

\* C8: in the UTF-16 driver an unpaired surrogate is rendered as the hex
\* escape of its value; a surrogate pair and a unit that is no surrogate are
\* rendered as the char they decode to is rendered in a text.
C8_Utf16 ==
    (Returned /\ kind = "os_str") =>
        Body = Flatten([i \in 1 .. Len(input) |-> UnitRendering(input, i)])

\* The units o, 0xD800, o were quoted as "o{~ud800}o".
C8_Witness ==
    /\ Returned
    /\ kind = "os_str"
    /\ input = <<111, 55296, 111>>
    /\ Output = <<34, 111, 123, 126, 117, 100, 56, 48, 48, 125, 111, 34>>

\* ---------------------------------------------------------------------------
\* C9
\* ---------------------------------------------------------------------------

\* C9: the output of a call that returned Ok starts and ends with a quote
\* written on its own, and a quote between them stands between { and }.
C9_Quoted ==
    Returned =>
        /\ Len(log) >= 2
        /\ log[1].data = <<QUOTE>>
        /\ log[Len(log)].data = <<QUOTE>>
        /\ \A i \in 1 .. Len(Body) :
            Body[i] = QUOTE =>
                /\ i > 1
                /\ i < Len(Body)
                /\ Body[i - 1] = START_ESCAPE
                /\ Body[i + 1] = END_ESCAPE

\* A text that ends with a quote was quoted.
C9_Witness ==
    /\ Returned
    /\ kind = "str"
    /\ input = <<117, 34>>
    /\ Output = <<34, 117, 123, 34, 125, 34>>

\* ---------------------------------------------------------------------------
\* C10
\* ---------------------------------------------------------------------------

\* The bytes handled so far and the bytes left are the input, in order, and
\* no iteration handled nothing.
ConsumedInOrder ==
    (kind = "bytes" /\ result # "err") =>
        /\ consumed \o string = input
        /\ iterations <= Len(consumed)
        /\ pc \in {"close", "done"} => string = <<>>

\* An iteration that completes leaves a shorter string.
IterationConsumes ==
    (iterations' = iterations + 1 /\ pc' = "escape") =>
        Len(string') < Len(string)

\* C10: the byte driver's loop terminates: every iteration that completes
\* consumes at least one byte, so the loop runs at most once per byte; the
\* bytes are consumed once each and in order, and the cursor stays inside the
\* buffer.
C10_LoopTerminates ==
    /\ []ConsumedInOrder
    /\ [][IterationConsumes]_vars

\* The loop ran three iterations, one per invalid byte, and returned.
C10_Witness ==
    /\ Returned
    /\ kind = "bytes"
    /\ input = <<128, 233, 194>>
    /\ iterations = 3
    /\ consumed = input

\* ---------------------------------------------------------------------------
\* C11
\* ---------------------------------------------------------------------------

\* Some range of the table holds the point.
InSomeRange(table, p) ==
    \E k \in 1 .. Len(table) : table[k][1] <= p /\ p <= table[k][2]

\* C11: on a table sorted by low with pairwise disjoint ranges, merged or
\* not, table_contains answers true exactly for the points some range
\* holds.
C11_TableContains ==
    pc = "looked" =>
        lookup_answer = InSomeRange(lookup_table, lookup_point)

\* The point was the high bound of the second of two adjacent ranges, found
\* from the insertion index past the end of the table.
C11_Witness ==
    /\ pc = "looked"
    /\ lookup_table = << <<1, 2>>, <<3, 5>> >>
    /\ lookup_point = 5
    /\ lookup_answer = TRUE

\* ---------------------------------------------------------------------------
\* C12
\* ---------------------------------------------------------------------------

\* The char is classified Literal.
IsLiteralChar(c) == FromChar(c).tag = "Literal"

\* The maximal runs of Literal chars of a text, counted at their first char.
NumRuns(chars) ==
    Cardinality({i \in 1 .. Len(chars) :
        IsLiteralChar(chars[i]) /\ (i = 1 \/ ~IsLiteralChar(chars[i - 1]))})

\* One write_str call that the sink accepted.
StrWrite(data) == [op |-> "str", data |-> data, ok |-> TRUE]

\* The write of a pending run, if there is one.
RunWrite(run) == IF run = <<>> THEN <<>> ELSE <<StrWrite(run)>>

\* The writes of the escape of one char.
EscapeWrites(c) == format(FromChar(c), NewSink(<<>>, 0)).sink.log

\* The writes the claim describes for the chars from position i on, run being
\* the bytes of the Literal chars since the last escape.
RECURSIVE RunWrites(_, _, _)
RunWrites(chars, i, run) ==
    IF i > Len(chars) THEN RunWrite(run)
    ELSE IF IsLiteralChar(chars[i]) THEN
        RunWrites(chars, i + 1, run \o EncodeUtf8(chars[i]))
    ELSE RunWrite(run) \o EscapeWrites(chars[i]) \o RunWrites(chars, i + 1, <<>>)

\* The write at position k of the log is the char ~ of an escape sequence.
IsTildeWrite(k) == k >= 1 /\ log[k].op = "char" /\ log[k].data = <<TILDE>>

\* The write at position k of the log is a write_str of a literal span: a
\* write_str that is not the name or the u after the ~ of an escape sequence,
\* nor the digits after that u.
IsLiteralWrite(k) ==
    /\ log[k].op = "str"
    /\ ~IsTildeWrite(k - 1)
    /\ ~(IsTildeWrite(k - 2) /\ log[k - 1] = StrWrite(<<LETTER_U>>))

\* C12: the text driver writes each maximal run of Literal chars with one
\* write_str of exactly that run, before the escape that follows it or at the
\* end of the text; it writes no empty span, and as many literal spans as
\* the text has maximal runs.
C12_OneWritePerRun ==
    (Returned /\ kind = "str") =>
        /\ SubSeq(log, 2, Len(log) - 1) = RunWrites(Chars(input, 0), 1, <<>>)
        /\ \A k \in 1 .. Len(log) : log[k].data # <<>>
        /\ Cardinality({k \in 1 .. Len(log) : IsLiteralWrite(k)})
           = NumRuns(Chars(input, 0))

\* The text ~u and a newline was quoted: the run ~u went out in one
\* write_str, before the four writes of the escape.
C12_Witness ==
    /\ Returned
    /\ kind = "str"
    /\ input = <<126, 117, 10>>
    /\ Len(log) = 7
    /\ log[2] = StrWrite(<<126, 117>>)
    /\ IsLiteralWrite(2)

====
